---- MODULE Spec2Model ----
(***************************************************************************)
(* A model of the CSV comparison engine of komuro-dev/CompareFiles:        *)
(* CSVComparatorParallel (validacao.py), the Markdown rendering of its     *)
(* report (markdown_generator.py) and the driver (main.py).                *)
(*                                                                         *)
(* A character is a one-token string, a field a sequence of characters, a  *)
(* row a sequence of fields and a table (DataFrame) a sequence of rows.    *)
(* Row positions are 0-based, as in the code: position i is df[i + 1].     *)
(* A float is kept as the exact fraction [num, den] it approximates.       *)
(***************************************************************************)
EXTENDS Integers, Sequences, FiniteSets, TLC

\* ------------------------------------------------------------------ bounds

\* The longest file of the main specification, in rows.
MaxRows == 3

\* The length of the long table of the duplicate-accounting specification.
DupRows == 10

\* The longest file of the column-exclusion specification, in rows.
ExclusionRows == 2

\* The last reading of the clock in the specification of two runs.
MaxClock == 1

\* cpu_count() of the machine the comparator runs on.
CpuCount == 4

\* The cap of the default worker count: min(cpu_count(), 8).
MaxDefaultWorkers == 8

\* n_workers of main()'s CONFIG.
MainWorkers == 8

\* The longest field of the normalisation specification, in characters.
FieldLen == 3

\* ------------------------------------------------------- generic helpers

Min(a, b) == IF a < b THEN a ELSE b

Max(a, b) == IF a > b THEN a ELSE b

Abs(a) == IF a < 0 THEN 0 - a ELSE a

\* The elements of a sequence, as a set.
Range(s) == {s[k] : k \in 1..Len(s)}

\* Python's range(a, b) as a list.
PyRange(a, b) == [k \in 1..Max(b - a, 0) |-> a + k - 1]

\* Python's normalisation of a slice bound k against a list of length n.
SliceBound(k, n) == IF k < 0 THEN Max(n + k, 0) ELSE Min(k, n)

\* Python's s[k:].
SliceFrom(s, k) == SubSeq(s, SliceBound(k, Len(s)) + 1, Len(s))

\* Python's s[:k].
SliceTo(s, k) == SubSeq(s, 1, SliceBound(k, Len(s)))

\* Python's sep.join(parts) on character sequences.
RECURSIVE Join(_, _)
Join(sep, parts) ==
    IF Len(parts) = 0 THEN <<>>
    ELSE IF Len(parts) = 1 THEN parts[1]
    ELSE parts[1] \o sep \o Join(sep, Tail(parts))

\* A float as the fraction it approximates.
Frac(n, d) == [num |-> n, den |-> d]

\* The float p equals the integer v.
FracIs(p, v) == p.num = v * p.den

\* Python's f"{p:.1f}" as a number of tenths (round half to even).
Fmt1(p) ==
    LET q == (p.num * 10) \div p.den
        r == (p.num * 10) % p.den
    IN  IF 2 * r > p.den THEN q + 1
        ELSE IF 2 * r < p.den THEN q
        ELSE IF q % 2 = 0 THEN q ELSE q + 1

\* ------------------------------------------------------------ characters

Letters ==
    {"a", "b", "c", "d", "e", "f", "g", "h", "i", "j", "k", "l", "m", "n", "o",
     "p", "q", "r", "s", "t", "u", "v", "w", "x", "y", "z", "A", "B", "C", "D",
     "E", "F", "G", "H", "I", "J", "K", "L", "M", "N", "O", "P", "Q", "R", "S",
     "T", "U", "V", "W", "X", "Y", "Z"}

Digits == {"0", "1", "2", "3", "4", "5", "6", "7", "8", "9"}

\* The whitespace characters of the model: space, tab and U+00A0.
Whitespace == {" ", "tab", "nbsp"}

\* The characters regex_pattern does not match (the class it negates).
AllowedChars ==
    Letters \cup Digits \cup Whitespace \cup
    {".", ",", ";", ":", "_", "(", ")", "/", "-"}

\* str.replace(old, new) for one-character old, new a character sequence.
RECURSIVE StrReplace(_, _, _)
StrReplace(field, old, new) ==
    IF Len(field) = 0 THEN <<>>
    ELSE (IF Head(field) = old THEN new ELSE <<Head(field)>>)
         \o StrReplace(Tail(field), old, new)

\* str.replace(regex_pattern, '.', regex=True).
RegexReplace(field) ==
    [k \in 1..Len(field) |->
        IF field[k] \in AllowedChars THEN field[k] ELSE "."]

\* Mutant of Strip: one whitespace character is taken from each end.
StripOne(field) ==
    LET left == IF Len(field) > 0 /\ Head(field) \in Whitespace
                THEN Tail(field) ELSE field
    IN  IF Len(left) > 0 /\ left[Len(left)] \in Whitespace
        THEN SubSeq(left, 1, Len(left) - 1) ELSE left

\* str.strip().
RECURSIVE LStrip(_)
LStrip(field) ==
    IF Len(field) > 0 /\ Head(field) \in Whitespace
    THEN LStrip(Tail(field)) ELSE field

RECURSIVE RStrip(_)
RStrip(field) ==
    IF Len(field) > 0 /\ field[Len(field)] \in Whitespace
    THEN RStrip(SubSeq(field, 1, Len(field) - 1)) ELSE field

Strip(field) == RStrip(LStrip(field))

\* ----------------------------------------------------------------- loader

\* CSVComparatorParallel._clean_dataframe
CleanDataframe(df) ==
    [i \in 1..Len(df) |-> [c \in 1..Len(df[i]) |-> Strip(df[i][c])]]

\* Mutant of ReplaceInvalidField: the comma is not replaced.
ReplaceInvalidFieldKeepComma(field) ==
    RegexReplace(StrReplace(StrReplace(field, "nbsp", <<>>), " ", <<>>))

\* The four replacements of _replace_invalid_char_in_df on one field.
ReplaceInvalidField(field) ==
    RegexReplace(
        StrReplace(StrReplace(StrReplace(field, ",", <<".">>), "nbsp", <<>>),
                   " ", <<>>))

\* CSVComparatorParallel._replace_invalid_char_in_df
ReplaceInvalidCharInDf(df) ==
    [i \in 1..Len(df) |->
        [c \in 1..Len(df[i]) |-> ReplaceInvalidField(df[i][c])]]

\* Mutant of DropFromRow: the labels shift down as columns are dropped.
RECURSIVE DropFromRowShifting(_, _, _)
DropFromRowShifting(row, cols, label) ==
    IF Len(row) = 0 THEN <<>>
    ELSE IF label \in cols
    THEN DropFromRowShifting(Tail(row), cols, label)
    ELSE <<Head(row)>> \o DropFromRowShifting(Tail(row), cols, label + 1)

\* DataFrame.drop(columns=cols, errors='ignore') on columns labelled 0..n-1.
RECURSIVE DropFromRow(_, _, _)
DropFromRow(row, cols, label) ==
    IF Len(row) = 0 THEN <<>>
    ELSE (IF label \in cols THEN <<>> ELSE <<Head(row)>>)
         \o DropFromRow(Tail(row), cols, label + 1)

DropColumns(df, cols) == [i \in 1..Len(df) |-> DropFromRow(df[i], cols, 0)]

encodings_to_try == <<"utf-8", "latin1", "cp1252">>

\* The encodings of the list under which pd.read_csv decodes the file, in
\* list order.
Decoding(file) ==
    SelectSeq(encodings_to_try, LAMBDA e : e \in file.decodes)

\* Mutant of ReadRaises: pd.read_csv returns a table whatever the file.
ReadRaisesNever(file) == FALSE

\* pd.read_csv raises something other than UnicodeDecodeError/TypeError (the
\* file cannot be opened: OSError; an empty file: EmptyDataError), which the
\* fallback loop does not catch.
ReadRaises(file) == file.status # "ok" \/ Len(file.rows) = 0

\* CSVComparatorParallel.load_file_with_encoding_fallback: TRUE iff a
\* (DataFrame, encoding) pair is returned rather than an exception raised.
LoadSucceeds(file) == ~ReadRaises(file) /\ Len(Decoding(file)) > 0

LoadedEncoding(file) == Decoding(file)[1]

\* Mutant of TryEncodings: the encodings are tried from the last to the first.
RECURSIVE TryEncodingsReversed(_, _, _)
TryEncodingsReversed(file, encodings, tried) ==
    IF Len(encodings) = 0
    THEN [ok |-> FALSE, encoding |-> "none", tried |-> tried,
          error |-> "unsupported_encoding"]
    ELSE IF ReadRaises(file)
    THEN [ok |-> FALSE, encoding |-> "none",
          tried |-> Append(tried, encodings[Len(encodings)]),
          error |-> "read_error"]
    ELSE IF encodings[Len(encodings)] \in file.decodes
    THEN [ok |-> TRUE, encoding |-> encodings[Len(encodings)],
          tried |-> Append(tried, encodings[Len(encodings)]),
          error |-> "none"]
    ELSE TryEncodingsReversed(file, SubSeq(encodings, 1, Len(encodings) - 1),
                              Append(tried, encodings[Len(encodings)]))

\* The loop of load_file_with_encoding_fallback over the encodings still to
\* try; tried lists the encodings pd.read_csv was called with so far. An
\* encoding outside file.decodes raises UnicodeDecodeError or TypeError.
RECURSIVE TryEncodings(_, _, _)
TryEncodings(file, encodings, tried) ==
    IF Len(encodings) = 0
    THEN [ok |-> FALSE, encoding |-> "none", tried |-> tried,
          error |-> "unsupported_encoding"]
    ELSE IF ReadRaises(file)
    THEN [ok |-> FALSE, encoding |-> "none",
          tried |-> Append(tried, Head(encodings)), error |-> "read_error"]
    ELSE IF Head(encodings) \in file.decodes
    THEN [ok |-> TRUE, encoding |-> Head(encodings),
          tried |-> Append(tried, Head(encodings)), error |-> "none"]
    ELSE TryEncodings(file, Tail(encodings), Append(tried, Head(encodings)))

\* CSVComparatorParallel.load_file_with_encoding_fallback
load_file_with_encoding_fallback(file) ==
    TryEncodings(file, encodings_to_try, <<>>)

\* The calls of pd.read_csv one load makes, as (file number, encoding) pairs.
ReadCalls(file_num, tried) ==
    [k \in 1..Len(tried) |-> [file_num |-> file_num, encoding |-> tried[k]]]

\* The body of load_files for one file, after the read: exclusion, cleaning
\* and the optional punctuation normalisation.
PrepareFile(file, config) ==
    LET dropped == IF config.exclude_columns # {}
                   THEN DropColumns(file.rows, config.exclude_columns)
                   ELSE file.rows
        cleaned == CleanDataframe(dropped)
    IN  IF config.substituir_caractere_invalido
        THEN ReplaceInvalidCharInDf(cleaned) ELSE cleaned

\* df.shape[1] of a loaded table (a loaded table has at least one row).
NCols(df) == IF Len(df) = 0 THEN 0 ELSE Len(df[1])

\* ------------------------------------------------------------ hash index

\* hashlib.md5(...).hexdigest(): a digest is kept as the tagged string it
\* digests, so that two digests are equal iff the digested strings are
\* (no MD5 collision is modelled).
Md5Hex(str) == <<"md5">> \o str

\* create_row_hash
create_row_hash(row_data) == Md5Hex(Join(<<"|">>, row_data))

\* Mutant of IndexAppend: the position is put at the front of its list.
IndexAppendFront(hash_index, row_hash, idx) ==
    IF row_hash \in DOMAIN hash_index
    THEN [hash_index EXCEPT ![row_hash] = <<idx>> \o @]
    ELSE [h \in DOMAIN hash_index \cup {row_hash} |->
            IF h = row_hash THEN <<idx>> ELSE hash_index[h]]

\* One iteration of the loop of build_hash_index: hash_index[row_hash].append(idx)
IndexAppend(hash_index, row_hash, idx) ==
    IF row_hash \in DOMAIN hash_index
    THEN [hash_index EXCEPT ![row_hash] = Append(@, idx)]
    ELSE [h \in DOMAIN hash_index \cup {row_hash} |->
            IF h = row_hash THEN <<idx>> ELSE hash_index[h]]

\* The loop of build_hash_index over the positions idx..len(df)-1.
RECURSIVE BuildFrom(_, _, _)
BuildFrom(df, idx, hash_index) ==
    IF idx >= Len(df) THEN hash_index
    ELSE BuildFrom(df, idx + 1,
                   IndexAppend(hash_index, create_row_hash(df[idx + 1]), idx))

\* CSVComparatorParallel.build_hash_index
build_hash_index(df) == BuildFrom(df, 0, <<>>)

\* Mutant of DictGet: a missing key yields the list [0].
DictGetDefaultZero(dict, key) == IF key \in DOMAIN dict THEN dict[key] ELSE <<0>>

\* dict.get(key, [])
DictGet(dict, key) == IF key \in DOMAIN dict THEN dict[key] ELSE <<>>

\* One call of build_hash_index, as the history keeps it.
BuildCall(file_num, df) ==
    [file_num |-> file_num, hash_index |-> build_hash_index(df)]

\* Mutant of MissingCountBuilds: both tables are indexed again.
MissingCountBuildsBoth(linhas, d1, d2) ==
    <<BuildCall(1, d1), BuildCall(2, d2)>>

\* The calls of build_hash_index generate_report makes for the distinct
\* counts it still misses.
MissingCountBuilds(linhas, d1, d2) ==
    (IF "distintas_arquivo1" \notin DOMAIN linhas
     THEN <<BuildCall(1, d1)>> ELSE <<>>)
    \o (IF "distintas_arquivo2" \notin DOMAIN linhas
        THEN <<BuildCall(2, d2)>> ELSE <<>>)

\* -------------------------------------------------------------- reconciler

\* The result dict compare_rows_detailed starts from.
EmptyResult ==
    [linhas_identicas_posicao |-> <<>>,
     linhas_diferentes_posicao |-> <<>>,
     linhas_apenas_arquivo1 |-> <<>>,
     linhas_apenas_arquivo2 |-> <<>>,
     linhas_movidas |-> <<>>,
     linhas_nao_movidas_nao_encontradas |-> <<>>]

\* Mutant of ComparePositionalSequential: the last row of the intersection
\* is not collected.
ComparePositionalSequentialShort(res, min_rows) ==
    [res EXCEPT !.linhas_diferentes_posicao =
        [k \in 1..Len(PyRange(0, min_rows - 1)) |->
            [linha |-> PyRange(0, min_rows - 1)[k]]]]

\* CSVComparatorParallel._compare_positional_sequential
ComparePositionalSequential(res, min_rows) ==
    [res EXCEPT !.linhas_diferentes_posicao =
        [k \in 1..Len(PyRange(0, min_rows)) |->
            [linha |-> PyRange(0, min_rows)[k]]]]

\* The entry _identify_exclusive_rows and _mark_different_as_exclusive append.
ExclusiveEntry(df_original, linha) ==
    [linha |-> linha, dados_por_posicao |-> df_original[linha + 1]]

ExclusiveEntries(df_original, linhas) ==
    [k \in 1..Len(linhas) |-> ExclusiveEntry(df_original, linhas[k])]

\* Mutant of IdentifyExclusiveRows: the first row past the intersection is
\* skipped.
IdentifyExclusiveRowsLate(res, min_rows, d1_original, d2_original) ==
    [res EXCEPT
        !.linhas_apenas_arquivo1 =
            @ \o ExclusiveEntries(d1_original,
                                  PyRange(min_rows + 1, Len(d1_original))),
        !.linhas_apenas_arquivo2 =
            @ \o ExclusiveEntries(d2_original,
                                  PyRange(min_rows + 1, Len(d2_original)))]

\* CSVComparatorParallel._identify_exclusive_rows
IdentifyExclusiveRows(res, min_rows, d1_original, d2_original) ==
    [res EXCEPT
        !.linhas_apenas_arquivo1 =
            @ \o ExclusiveEntries(d1_original,
                                  PyRange(min_rows, Len(d1_original))),
        !.linhas_apenas_arquivo2 =
            @ \o ExclusiveEntries(d2_original,
                                  PyRange(min_rows, Len(d2_original)))]

\* The entry of linhas_nao_movidas_nao_encontradas.
NotFoundEntry(d1_original, delimiter, linha) ==
    [linha |-> linha,
     conteudo_original |-> Join(delimiter, d1_original[linha + 1])]

\* Mutant of MovedEntry: the row's own position is reported as its match.
MovedEntryOwnPosition(d1_original, delimiter, linha, matching_positions) ==
    [linha_original |-> linha,
     posicoes_encontradas |-> <<linha>>,
     conteudo_original |-> Join(delimiter, d1_original[linha + 1])]

\* The entry of linhas_movidas.
MovedEntry(d1_original, delimiter, linha, matching_positions) ==
    [linha_original |-> linha,
     posicoes_encontradas |-> matching_positions,
     conteudo_original |-> Join(delimiter, d1_original[linha + 1])]

\* Mutant of SearchOne: only the first matching position is kept.
SearchOneFirstOnly(acc, i, hash_index_2, d1, d1_original, delimiter) ==
    LET row_hash == create_row_hash(d1[i + 1])
        matching_positions == DictGet(hash_index_2, row_hash)
    IN  [looked |-> Append(acc.looked, i),
         res |->
            IF Len(matching_positions) > 0
            THEN [acc.res EXCEPT !.linhas_movidas =
                    Append(@, MovedEntry(d1_original, delimiter, i,
                                         <<matching_positions[1]>>))]
            ELSE [acc.res EXCEPT !.linhas_nao_movidas_nao_encontradas =
                    Append(@, NotFoundEntry(d1_original, delimiter, i))]]

\* One iteration of the loop of _find_moved_rows_logic, for candidate i.
\* acc.res is the result dict, acc.looked the positions looked up so far.
SearchOne(acc, i, hash_index_2, d1, d1_original, delimiter) ==
    LET row_hash == create_row_hash(d1[i + 1])
        matching_positions == DictGet(hash_index_2, row_hash)
    IN  [looked |-> Append(acc.looked, i),
         res |->
            IF Len(matching_positions) > 0
            THEN [acc.res EXCEPT !.linhas_movidas =
                    Append(@, MovedEntry(d1_original, delimiter, i,
                                         matching_positions))]
            ELSE [acc.res EXCEPT !.linhas_nao_movidas_nao_encontradas =
                    Append(@, NotFoundEntry(d1_original, delimiter, i))]]

RECURSIVE SearchLoop(_, _, _, _, _, _)
SearchLoop(acc, rows_to_check_indices, hash_index_2, d1, d1_original, delimiter) ==
    IF Len(rows_to_check_indices) = 0 THEN acc
    ELSE SearchLoop(SearchOne(acc, Head(rows_to_check_indices), hash_index_2,
                              d1, d1_original, delimiter),
                    Tail(rows_to_check_indices), hash_index_2, d1,
                    d1_original, delimiter)

\* Mutant of FindMovedRowsLogic: the candidate list is not emptied.
FindMovedRowsLogicKeepingCandidates(res, rows_to_check_indices, hash_index_2, d1, d1_original, delimiter) ==
    SearchLoop([res |-> res, looked |-> <<>>], rows_to_check_indices,
               hash_index_2, d1, d1_original, delimiter)

\* CSVComparatorParallel._find_moved_rows_logic
FindMovedRowsLogic(res, rows_to_check_indices, hash_index_2, d1, d1_original, delimiter) ==
    LET acc == SearchLoop([res |-> res, looked |-> <<>>],
                          rows_to_check_indices, hash_index_2, d1,
                          d1_original, delimiter)
    IN  [acc EXCEPT !.res.linhas_diferentes_posicao = <<>>]

\* Mutant of IgnoredDiffs: the slice starts one candidate late.
IgnoredDiffsSkipOne(res, max_rows) ==
    SliceFrom(res.linhas_diferentes_posicao, max_rows + 1)

\* The candidates the budget leaves out:
\* result['linhas_diferentes_posicao'][max_rows_for_moved_check:]
IgnoredDiffs(res, max_rows) == SliceFrom(res.linhas_diferentes_posicao, max_rows)

\* Mutant of RowsWithinBudget: one candidate more than the budget is kept.
RowsWithinBudgetPlusOne(rows_to_check_indices, max_rows) ==
    SliceTo(rows_to_check_indices, max_rows + 1)

\* rows_to_check_indices[:max_rows_for_moved_check]
RowsWithinBudget(rows_to_check_indices, max_rows) ==
    SliceTo(rows_to_check_indices, max_rows)

\* Mutant of FindMovedRows: with use_parallel every worker has the budget.
FindMovedRowsPerWorker(res, hash_index_2, d1, d1_original, config) ==
    LET all_indices == [k \in 1..Len(res.linhas_diferentes_posicao) |->
                            res.linhas_diferentes_posicao[k].linha]
        max_rows == IF config.use_parallel
                    THEN config.max_rows_for_moved_check
                         * (IF config.n_workers # 0 THEN config.n_workers
                            ELSE Min(CpuCount, MaxDefaultWorkers))
                    ELSE config.max_rows_for_moved_check
        limited == Len(all_indices) > max_rows
        ignored_diffs == IgnoredDiffs(res, max_rows)
        res1 == IF limited
                THEN [res EXCEPT !.linhas_nao_movidas_nao_encontradas =
                        @ \o [k \in 1..Len(ignored_diffs) |->
                                NotFoundEntry(d1_original, config.delimiter,
                                              ignored_diffs[k].linha)]]
                ELSE res
        rows_to_check_indices ==
            IF limited THEN RowsWithinBudget(all_indices, max_rows)
            ELSE all_indices
    IN  IF Len(all_indices) = 0 THEN [res |-> res, looked |-> <<>>]
        ELSE FindMovedRowsLogic(res1, rows_to_check_indices, hash_index_2, d1,
                                d1_original, config.delimiter)

\* CSVComparatorParallel._find_moved_rows
FindMovedRows(res, hash_index_2, d1, d1_original, config) ==
    LET all_indices == [k \in 1..Len(res.linhas_diferentes_posicao) |->
                            res.linhas_diferentes_posicao[k].linha]
        limited == Len(all_indices) > config.max_rows_for_moved_check
        ignored_diffs == IgnoredDiffs(res, config.max_rows_for_moved_check)
        res1 == IF limited
                THEN [res EXCEPT !.linhas_nao_movidas_nao_encontradas =
                        @ \o [k \in 1..Len(ignored_diffs) |->
                                NotFoundEntry(d1_original, config.delimiter,
                                              ignored_diffs[k].linha)]]
                ELSE res
        rows_to_check_indices ==
            IF limited
            THEN RowsWithinBudget(all_indices, config.max_rows_for_moved_check)
            ELSE all_indices
    IN  IF Len(all_indices) = 0 THEN [res |-> res, looked |-> <<>>]
        ELSE FindMovedRowsLogic(res1, rows_to_check_indices, hash_index_2, d1,
                                d1_original, config.delimiter)

\* Mutant of MarkDifferentAsExclusive: the candidates are marked exclusive to
\* file 1 only.
MarkDifferentAsExclusiveToFile1(res, d1_original, d2_original) ==
    LET linhas == [k \in 1..Len(res.linhas_diferentes_posicao) |->
                        res.linhas_diferentes_posicao[k].linha]
    IN  [res EXCEPT
            !.linhas_apenas_arquivo1 = @ \o ExclusiveEntries(d1_original, linhas),
            !.linhas_diferentes_posicao = <<>>]

\* CSVComparatorParallel._mark_different_as_exclusive
MarkDifferentAsExclusive(res, d1_original, d2_original) ==
    LET linhas == [k \in 1..Len(res.linhas_diferentes_posicao) |->
                        res.linhas_diferentes_posicao[k].linha]
    IN  [res EXCEPT
            !.linhas_apenas_arquivo1 = @ \o ExclusiveEntries(d1_original, linhas),
            !.linhas_apenas_arquivo2 = @ \o ExclusiveEntries(d2_original, linhas),
            !.linhas_diferentes_posicao = <<>>]

\* Mutant of Similarity: the rows of both tables are added up.
SimilarityOverSum(res, d1, d2) ==
    LET total_linhas == Len(d1) + Len(d2)
    IN  IF total_linhas > 0
        THEN Frac(Len(res.linhas_movidas) * 100, total_linhas)
        ELSE Frac(100, 1)

\* Mutant of Similarity: every matching table-2 position is counted.
SimilarityPerPosition(res, d1, d2) ==
    LET total_linhas == Max(Len(d1), Len(d2))
        found == UNION {{<<k, j>> : j \in 1..Len(res.linhas_movidas[k].posicoes_encontradas)} :
                            k \in 1..Len(res.linhas_movidas)}
    IN  IF total_linhas > 0
        THEN Frac(Cardinality(found) * 100, total_linhas)
        ELSE Frac(100, 1)

\* The value _calculate_final_statistics stores as percentual_similaridade.
Similarity(res, d1, d2) ==
    LET total_linhas == Max(Len(d1), Len(d2))
    IN  IF total_linhas > 0
        THEN Frac(Len(res.linhas_movidas) * 100, total_linhas)
        ELSE Frac(100, 1)

\* -------------------------------------------------------- report sections

\* CSVComparatorParallel.compare_columns (columns are labelled 0..n-1)
compare_columns(d1, d2) ==
    LET cols1 == PyRange(0, NCols(d1))
        cols2 == PyRange(0, NCols(d2))
        set1 == Range(cols1)
        set2 == Range(cols2)
    IN  [arquivo1 |-> [quantidade |-> Len(cols1), posicoes |-> cols1],
         arquivo2 |-> [quantidade |-> Len(cols2), posicoes |-> cols2],
         mesma_quantidade |-> Len(cols1) = Len(cols2),
         diferenca_quantidade |-> Abs(Len(cols1) - Len(cols2)),
         posicoes_apenas_arquivo1 |-> set1 \ set2,
         posicoes_apenas_arquivo2 |-> set2 \ set1,
         posicoes_comuns |-> set1 \cap set2,
         colunas_diferentes |-> (set1 \ set2) \cup (set2 \ set1) # {}]

\* CSVComparatorParallel.compare_data_types (every column is read as str)
compare_data_types(d1, d2) ==
    IF NCols(d1) # NCols(d2)
    THEN [erro |-> "Quantidade de colunas diferente"]
    ELSE [diferencas |-> {}, tipos_identicos |-> TRUE]

\* CSVComparatorParallel.compare_rows_count
compare_rows_count(d1, d2) ==
    [arquivo1 |-> Len(d1), arquivo2 |-> Len(d2),
     mesma_quantidade |-> Len(d1) = Len(d2),
     diferenca |-> Abs(Len(d1) - Len(d2))]

\* Mutant of SkippedComparison: the six lists without the error marker.
SkippedComparisonUnmarked == EmptyResult

\* The row-comparison section generate_report stores when the columns differ.
SkippedComparison ==
    [h \in DOMAIN EmptyResult \cup {"erro"} |->
        IF h = "erro" THEN "Quantidade de colunas diferente" ELSE <<>>]

\* self.n_workers: n_workers or min(cpu_count(), 8); None is kept as 0.
NWorkers(n_workers) ==
    IF n_workers # 0 THEN n_workers ELSE Min(CpuCount, MaxDefaultWorkers)

\* The number of characters of a list of fields joined by the delimiter.
RECURSIVE JoinedLen(_, _)
JoinedLen(row, delimiter) ==
    IF Len(row) = 0 THEN 0
    ELSE Len(Head(row)) + (IF Len(row) > 1 THEN Len(delimiter) ELSE 0)
         + JoinedLen(Tail(row), delimiter)

\* os.path.getsize: the characters of the rows, each row ended by a newline.
RECURSIVE RowsSize(_, _)
RowsSize(rows, delimiter) ==
    IF Len(rows) = 0 THEN 0
    ELSE JoinedLen(Head(rows), delimiter) + 1 + RowsSize(Tail(rows), delimiter)

FileSize(file, delimiter) == RowsSize(file.rows, delimiter)

\* dict[key] = value on a dict kept as a function.
DictSet(dict, key, value) ==
    [h \in DOMAIN dict \cup {key} |-> IF h = key THEN value ELSE dict[h]]

\* ------------------------------------------------------------------ state

VARIABLES
    pc,             \* where the run of main() is
    file1,          \* the first source file: its rows and the encodings that decode it
    file2,          \* the second source file
    cfg,            \* the configuration the comparator was constructed with
    df1,            \* self.df1 (<<>> while None)
    df2,            \* self.df2 (<<>> while None)
    df1_original,   \* self.df1_original
    df2_original,   \* self.df2_original
    hash_index_2,   \* the index compare_rows_detailed builds over df2
    result,         \* the result dict of compare_rows_detailed
    report,         \* self.report
    lookups,        \* history: the table-1 positions looked up in hash_index_2, in order
    md,             \* the numbers the Markdown report shows
    encoding1,      \* self.encoding1 ("unset" before the load)
    encoding2,      \* self.encoding2
    reads,          \* history: the calls of pd.read_csv, in order
    load_error,     \* the exception load_files caught ("none" if none)
    txt,            \* the companion text file: its lines in order (<<>>: not written)
    clock,          \* the reading of the system clock
    previous,       \* history: the run before this one, its cfg, report, lookups and txt (<<>>: none)
    builds,         \* history: the calls of build_hash_index, in order: the file indexed and the index returned
    console         \* the numbers print_summary has printed (<<>>: not called yet)

vars ==
    <<pc, file1, file2, cfg, df1, df2, df1_original, df2_original,
      hash_index_2, result, report, lookups, md, encoding1, encoding2, reads,
      load_error, txt, clock, previous, builds, console>>

\* What is outside the comparator and its reports: the clock and the run before.
outside == <<clock, previous>>

\* What load_files alone assigns.
loading == <<encoding1, encoding2, reads, load_error>>

\* ----------------------------------------------------------------- inputs

\* Rows of two fields. RowP1 and RowP2 differ field by field and are joined
\* by create_row_hash to the same string, a|a|a.
RowX == <<<<"x">>, <<"y">>>>

RowP1 == <<<<"a", "|", "a">>, <<"a">>>>

RowP2 == <<<<"a">>, <<"a", "|", "a">>>>

\* A row of one field.
RowQ == <<<<"x">>>>

\* The tables of at most n rows over a set of rows (the empty file included).
TablesOver(rows, n) == UNION {[1..k -> rows] : k \in 0..n}

FileTables ==
    TablesOver({RowX, RowP1, RowP2}, MaxRows) \cup TablesOver({RowQ}, MaxRows)

\* max_rows_for_moved_check is any int: below, at and above the table lengths.
Budgets == (0 - 1)..MaxRows

AllEncodings == Range(encodings_to_try)

\* The configurations: with check_moved_rows off the budget is never read,
\* and one value of it is enough.
Configs ==
    {c \in [delimiter : {<<",">>},
            use_parallel : {TRUE},
            check_moved_rows : BOOLEAN,
            max_rows_for_moved_check : Budgets,
            n_workers : {MainWorkers},
            normalize_numeric_strings : {FALSE},
            substituir_caractere_invalido : {FALSE},
            exclude_columns : {{}}] :
        c.check_moved_rows \/ c.max_rows_for_moved_check = 1}

\* CSVComparatorParallel.__init__: nothing is loaded, the report is empty.
Fresh ==
    /\ df1 = <<>> /\ df2 = <<>>
    /\ df1_original = <<>> /\ df2_original = <<>>
    /\ hash_index_2 = <<>>
    /\ result = <<>>
    /\ report = <<>>
    /\ lookups = <<>>
    /\ md = <<>>
    /\ encoding1 = "unset" /\ encoding2 = "unset"
    /\ reads = <<>>
    /\ load_error = "none"
    /\ txt = <<>>
    /\ builds = <<>>
    /\ console = <<>>

Constructed == pc = "constructed" /\ Fresh

\* The first run, at clock reading 0.
FirstRun == clock = 0 /\ previous = <<>>

Init ==
    /\ file1 \in [rows : FileTables, decodes : {AllEncodings}, status : {"ok"}]
    /\ file2 \in [rows : FileTables, decodes : {AllEncodings}, status : {"ok"}]
    /\ cfg \in Configs
    /\ Constructed
    /\ FirstRun

\* ----------------------------------------------------------------- render

\* Mutant of PercDup: the share of distinct rows, not of duplicates.
PercDupOfDistinct(distintas, qtd) ==
    IF qtd > 0 THEN Frac(distintas * 100, qtd) ELSE Frac(0, 1)

\* perc_dup of MarkdownGenerator._add_rows_analysis
PercDup(distintas, qtd) ==
    IF qtd > 0 THEN Frac((qtd - distintas) * 100, qtd) ELSE Frac(0, 1)

\* MarkdownGenerator._add_rows_analysis: the duplication table.
RowsAnalysis(rep) ==
    LET rows_info == DictGet(rep, "linhas")
        qtd1 == rows_info.arquivo1
        qtd2 == rows_info.arquivo2
        distintas1 == IF "distintas_arquivo1" \in DOMAIN rows_info
                      THEN rows_info.distintas_arquivo1 ELSE 0
        distintas2 == IF "distintas_arquivo2" \in DOMAIN rows_info
                      THEN rows_info.distintas_arquivo2 ELSE 0
    IN  [qtd1 |-> qtd1, qtd2 |-> qtd2,
         distintas1 |-> distintas1, distintas2 |-> distintas2,
         perc_dup1 |-> Fmt1(PercDup(distintas1, qtd1)),
         perc_dup2 |-> Fmt1(PercDup(distintas2, qtd2))]

\* indices_encontrados_arq2 of _add_detailed_line_comparison
IndicesEncontradosArq2(movidas) ==
    UNION {Range(movidas[k].posicoes_encontradas) : k \in 1..Len(movidas)}

\* MarkdownGenerator._add_detailed_line_comparison: the rows of the
\* occurrence table, or <<>> under the "not performed" notice.
DetailedLineComparison(rep) ==
    LET line_comp == DictGet(rep, "comparacao_linhas")
        movidas == line_comp.linhas_movidas
        contagem_movidas_arq1 == Len(movidas)
        contagem_movidas_arq2 == Cardinality(IndicesEncontradosArq2(movidas))
        total_linhas_arq1 == rep.linhas.arquivo1
        total_linhas_arq2 == rep.linhas.arquivo2
        total_nao_encontradas_arq1 ==
            Len(line_comp.linhas_nao_movidas_nao_encontradas)
            + Len(line_comp.linhas_apenas_arquivo1)
        total_nao_encontradas_arq2 == total_linhas_arq2 - contagem_movidas_arq2
    IN  IF DOMAIN line_comp = {} \/ "erro" \in DOMAIN line_comp THEN <<>>
        ELSE (IF total_linhas_arq1 > 0
              THEN <<[tipo |-> "arq1_encontradas",
                      quantidade |-> contagem_movidas_arq1]>> ELSE <<>>)
          \o (IF total_linhas_arq2 > 0
              THEN <<[tipo |-> "arq2_encontradas",
                      quantidade |-> contagem_movidas_arq2]>> ELSE <<>>)
          \o (IF total_linhas_arq1 > 0
              THEN <<[tipo |-> "arq1_nao_encontradas",
                      quantidade |-> total_nao_encontradas_arq1]>> ELSE <<>>)
          \o (IF total_linhas_arq2 > 0
              THEN <<[tipo |-> "arq2_nao_encontradas",
                      quantidade |-> total_nao_encontradas_arq2]>> ELSE <<>>)

\* ---------------------------------------------------------------- actions

\* CSVComparatorParallel.load_files, called by main(): file 1 is read and
\* prepared, then file 2; an exception from either read makes it return False.
LoadFiles ==
    /\ pc = "constructed"
    /\ LET load1 == load_file_with_encoding_fallback(file1)
           load2 == load_file_with_encoding_fallback(file2)
       IN  IF load1.ok
           THEN /\ df1_original' = PrepareFile(file1, cfg)
                /\ df1' = PrepareFile(file1, cfg)
                /\ encoding1' = load1.encoding
                /\ reads' = ReadCalls(1, load1.tried) \o ReadCalls(2, load2.tried)
                /\ load_error' = load2.error
                /\ IF load2.ok
                   THEN /\ df2_original' = PrepareFile(file2, cfg)
                        /\ df2' = PrepareFile(file2, cfg)
                        /\ encoding2' = load2.encoding
                        /\ pc' = "loaded"
                   ELSE /\ UNCHANGED <<df2_original, df2, encoding2>>
                        /\ pc' = "load_failed"
           ELSE /\ reads' = ReadCalls(1, load1.tried)
                /\ load_error' = load1.error
                /\ UNCHANGED <<df1_original, df1, df2_original, df2,
                               encoding1, encoding2>>
                /\ pc' = "load_failed"
    /\ UNCHANGED <<file1, file2, cfg, hash_index_2, result, report, lookups,
                   md, txt, outside, builds, console>>

\* generate_report up to the branch on the column comparison: the metadata
\* (its configuration echo), the column, type and row-count sections.
CompareStructure ==
    /\ pc = "loaded"
    /\ report' =
        [metadados |->
            [arquivo1 |-> [caminho |-> "file1_path", nome |-> "file1_path",
                           tamanho |-> FileSize(file1, cfg.delimiter)],
             arquivo2 |-> [caminho |-> "file2_path", nome |-> "file2_path",
                           tamanho |-> FileSize(file2, cfg.delimiter)],
             configuracao |->
                [delimitador |-> cfg.delimiter,
                 paralelismo |-> cfg.use_parallel,
                 workers |-> IF cfg.use_parallel
                             THEN NWorkers(cfg.n_workers) ELSE 1,
                 verificacao_movidas |-> cfg.check_moved_rows,
                 max_linhas_movidas |-> cfg.max_rows_for_moved_check,
                 normalize_numeric_strings |-> cfg.normalize_numeric_strings,
                 substituir_caractere_invalido |->
                    cfg.substituir_caractere_invalido,
                 exclude_columns |-> cfg.exclude_columns],
             data_comparacao |-> clock],
         colunas |-> compare_columns(df1, df2),
         tipos_dados |-> compare_data_types(df1, df2),
         linhas |-> compare_rows_count(df1, df2)]
    /\ pc' = "structure"
    /\ UNCHANGED <<file1, file2, cfg, df1, df2, df1_original, df2_original,
                   hash_index_2, result, lookups, md, txt, loading, outside, builds, console>>

\* generate_report, columns differ: the row comparison is skipped.
SkipDetailed ==
    /\ pc = "structure"
    /\ report.colunas.colunas_diferentes
    /\ report' = DictSet(report, "comparacao_linhas", SkippedComparison)
    /\ pc' = "compared"
    /\ UNCHANGED <<file1, file2, cfg, df1, df2, df1_original, df2_original,
                   hash_index_2, result, lookups, md, txt, loading, outside, builds, console>>

\* min_rows of compare_rows_detailed
MinRows == Min(Len(df1), Len(df2))

\* compare_rows_detailed up to the branch on check_moved_rows: the index of
\* table 2 (its key count stored as distintas_arquivo2), the candidates of
\* the intersection and the exclusive rows.
Partition ==
    /\ pc = "structure"
    /\ ~report.colunas.colunas_diferentes
    /\ NCols(df1) = NCols(df2)
    /\ hash_index_2' = build_hash_index(df2)
    /\ report' = [report EXCEPT !.linhas =
                    DictSet(@, "distintas_arquivo2",
                            Cardinality(DOMAIN build_hash_index(df2)))]
    /\ result' = IdentifyExclusiveRows(
                    ComparePositionalSequential(EmptyResult, MinRows),
                    MinRows, df1_original, df2_original)
    /\ builds' = Append(builds, BuildCall(2, df2))
    /\ pc' = "partitioned"
    /\ UNCHANGED <<file1, file2, cfg, df1, df2, df1_original, df2_original,
                   lookups, md, txt, loading, outside, console>>

\* Mutant of CalculateFinalStatistics: the result is stamped with the time.
CalculateFinalStatisticsStamped(res, d1, d2) ==
    DictSet(DictSet(res, "percentual_similaridade", Similarity(res, d1, d2)),
            "calculado_em", clock)

\* _calculate_final_statistics
CalculateFinalStatistics(res, d1, d2) ==
    DictSet(res, "percentual_similaridade", Similarity(res, d1, d2))

\* compare_rows_detailed with check_moved_rows: the budgeted search, the
\* statistics, and the return into report['comparacao_linhas'].
FindMoved ==
    /\ pc = "partitioned"
    /\ cfg.check_moved_rows
    /\ LET out == FindMovedRows(result, hash_index_2, df1, df1_original, cfg)
       IN  /\ result' = CalculateFinalStatistics(out.res, df1, df2)
           /\ report' = DictSet(report, "comparacao_linhas",
                                CalculateFinalStatistics(out.res, df1, df2))
           /\ lookups' = out.looked
    /\ pc' = "compared"
    /\ UNCHANGED <<file1, file2, cfg, df1, df2, df1_original, df2_original,
                   hash_index_2, md, txt, loading, outside, builds, console>>

\* compare_rows_detailed without check_moved_rows: every candidate is marked
\* exclusive to both files; then the statistics and the return.
MarkExclusive ==
    /\ pc = "partitioned"
    /\ ~cfg.check_moved_rows
    /\ LET out == MarkDifferentAsExclusive(result, df1_original, df2_original)
       IN  /\ result' = CalculateFinalStatistics(out, df1, df2)
           /\ report' = DictSet(report, "comparacao_linhas",
                                CalculateFinalStatistics(out, df1, df2))
    /\ pc' = "compared"
    /\ UNCHANGED <<file1, file2, cfg, df1, df2, df1_original, df2_original,
                   hash_index_2, lookups, md, txt, loading, outside, builds, console>>

\* Mutant of WithDistinctCounts: only the count of table 1 is filled in.
WithDistinctCountsFirstOnly(linhas, d1, d2) ==
    IF "distintas_arquivo1" \notin DOMAIN linhas
    THEN DictSet(linhas, "distintas_arquivo1",
                 Cardinality(DOMAIN build_hash_index(d1)))
    ELSE linhas

\* The distinct counts generate_report still misses.
WithDistinctCounts(linhas, d1, d2) ==
    LET with1 == IF "distintas_arquivo1" \notin DOMAIN linhas
                 THEN DictSet(linhas, "distintas_arquivo1",
                              Cardinality(DOMAIN build_hash_index(d1)))
                 ELSE linhas
    IN  IF "distintas_arquivo2" \notin DOMAIN with1
        THEN DictSet(with1, "distintas_arquivo2",
                     Cardinality(DOMAIN build_hash_index(d2)))
        ELSE with1

\* The end of generate_report: the missing distinct counts and the time the
\* comparison took, from the clock reading at its start.
CountDistinct ==
    /\ pc = "compared"
    /\ report' =
        [report EXCEPT
            !.linhas = WithDistinctCounts(@, df1, df2),
            !.metadados = DictSet(@, "tempo_execucao",
                                  clock - report.metadados.data_comparacao)]
    /\ builds' = builds \o MissingCountBuilds(report.linhas, df1, df2)
    /\ pc' = "reported"
    /\ UNCHANGED <<file1, file2, cfg, df1, df2, df1_original, df2_original,
                   hash_index_2, result, lookups, md, txt, loading, outside,
                   console>>

\* The content block of print_summary: the three counts it prints, or the
\* notice that the detailed comparison was not performed.
SummaryContent(rep) ==
    IF "comparacao_linhas" \in DOMAIN rep
       /\ "erro" \notin DOMAIN rep.comparacao_linhas
    THEN [realizada |-> TRUE,
          movidas_arq1 |-> Len(rep.comparacao_linhas.linhas_movidas),
          nao_encontradas_arq1 |->
              Len(rep.comparacao_linhas.linhas_nao_movidas_nao_encontradas)
              + Len(rep.comparacao_linhas.linhas_apenas_arquivo1),
          nao_encontradas_arq2 |->
              Len(rep.comparacao_linhas.linhas_apenas_arquivo2)]
    ELSE [realizada |-> FALSE]

\* CSVComparatorParallel.print_summary, called by main() on the finished
\* report.
PrintSummary ==
    /\ pc = "reported"
    /\ console = <<>>
    /\ console' = SummaryContent(report)
    /\ UNCHANGED <<pc, file1, file2, cfg, df1, df2, df1_original, df2_original,
                   hash_index_2, result, report, lookups, md, txt, loading,
                   outside, builds>>

\* save_report_to_file: MarkdownGenerator(report).generate_markdown_report().
RenderMarkdown ==
    /\ pc = "reported"
    /\ console # <<>>
    /\ md' = [rows_analysis |-> RowsAnalysis(report),
              detailed |-> DetailedLineComparison(report)]
    /\ pc' = "rendered"
    /\ UNCHANGED <<file1, file2, cfg, df1, df2, df1_original, df2_original,
                   hash_index_2, result, report, lookups, txt, loading, outside,
                   builds, console>>

Next ==
    \/ LoadFiles
    \/ CompareStructure
    \/ SkipDetailed
    \/ Partition
    \/ FindMoved
    \/ MarkExclusive
    \/ CountDistinct
    \/ PrintSummary
    \/ RenderMarkdown

Spec == Init /\ [][Next]_vars

\* ------------------------------------------------------------ the driver

\* validate_file_exists
validate_file_exists(file) == file.status # "missing"

\* main() from the validation of the two paths to the construction of the
\* comparator (neither file is above max_file_size_mb: no prompt).
ValidateFiles ==
    /\ pc = "validating"
    /\ pc' = IF validate_file_exists(file1) /\ validate_file_exists(file2)
             THEN "constructed" ELSE "invalid"
    /\ UNCHANGED <<file1, file2, cfg, df1, df2, df1_original, df2_original,
                   hash_index_2, result, report, lookups, md, txt, loading, outside,
                   builds, console>>

\* unmatched_lines of save_unmatched_moved_lines_to_file
UnmatchedLines(rep) ==
    DictGet(DictGet(rep, "comparacao_linhas"),
            "linhas_nao_movidas_nao_encontradas")

\* The lines save_unmatched_moved_lines_to_file writes, in order. linha is
\* history: the table-1 position of the entry the line was written from.
CompanionLines(unmatched_lines) ==
    [k \in 1..Len(unmatched_lines) |->
        [linha |-> unmatched_lines[k].linha,
         conteudo |-> unmatched_lines[k].conteudo_original \o <<"newline">>]]

\* main() after save_report_to_file: save_unmatched_moved_lines_to_file
\* (no file is written for an empty list) and the successful return.
SaveUnmatchedMovedLines ==
    /\ pc = "rendered"
    /\ txt' = CompanionLines(UnmatchedLines(report))
    /\ pc' = "done"
    /\ UNCHANGED <<file1, file2, cfg, df1, df2, df1_original, df2_original,
                   hash_index_2, result, report, lookups, md, loading, outside,
                   builds, console>>

\* main(), from the validation of the files to its return.
NextMain ==
    \/ ValidateFiles
    \/ Next
    \/ SaveUnmatchedMovedLines

\* The initial state of main(): the comparator is yet to be constructed.
Started == pc = "validating" /\ Fresh /\ FirstRun

\* Tables of two columns over two rows, and of one column.
MainTables ==
    TablesOver({RowX, RowP1}, MaxRows) \cup TablesOver({RowQ}, MaxRows)

InitMain ==
    /\ file1 \in [rows : MainTables, decodes : {AllEncodings}, status : {"ok"}]
    /\ file2 \in [rows : MainTables, decodes : {AllEncodings}, status : {"ok"}]
    /\ cfg \in Configs
    /\ Started

SpecMain == InitMain /\ [][NextMain]_vars

\* ------------------------------------------------------- loading failures

\* Source files that exist and can be opened: of rows or empty, decoded by
\* any of the encodings, by some or by none.
ReadableFiles ==
    [rows : {<<RowX>>, <<RowX, RowP1>>, <<RowQ>>, <<>>},
     decodes : SUBSET AllEncodings,
     status : {"ok"}]

\* Source files that are missing, or that cannot be opened.
BrokenFiles ==
    [rows : {<<RowX>>},
     decodes : {AllEncodings},
     status : {"missing", "unreadable"}]

InitLoad ==
    /\ file1 \in ReadableFiles \cup BrokenFiles
    /\ file2 \in ReadableFiles \cup BrokenFiles
    /\ cfg \in {c \in Configs : c.max_rows_for_moved_check = 1}
    /\ Started

SpecLoad == InitLoad /\ [][NextMain]_vars

\* -------------------------------------------------------- column exclusion

\* Rows of three fields, different in the last one only.
RowA == <<<<"a">>, <<"b">>, <<"c">>>>

RowB == <<<<"a">>, <<"b">>, <<"d">>>>

\* Tables of three columns and of two, of at least one row.
ExclusionTables ==
    (TablesOver({RowA, RowB}, ExclusionRows)
        \cup TablesOver({RowX}, ExclusionRows)) \ {<<>>}

\* The indices a user may type: columns of both tables, of the wider table
\* only, and of neither.
ColumnIndices == {0 - 1, 0, 1, 2, 3}

InitExclusion ==
    /\ file1 \in [rows : ExclusionTables, decodes : {AllEncodings},
                   status : {"ok"}]
    /\ file2 \in [rows : ExclusionTables, decodes : {AllEncodings},
                   status : {"ok"}]
    /\ cfg \in {[c EXCEPT !.exclude_columns = cols] :
                    c \in {d \in Configs : d.max_rows_for_moved_check = 1},
                    cols \in SUBSET ColumnIndices}
    /\ Started

SpecExclusion == InitExclusion /\ [][NextMain]_vars

\* ---------------------------------------------------------------- two runs

\* Time passes while a run is under way (datetime.now() and time.time() are
\* read in generate_report).
Tick ==
    /\ pc \notin {"done", "invalid", "load_failed"}
    /\ clock < MaxClock
    /\ clock' = clock + 1
    /\ UNCHANGED <<pc, file1, file2, cfg, df1, df2, df1_original, df2_original,
                   hash_index_2, result, report, lookups, md, txt, loading,
                   previous, builds, console>>

\* The use_parallel and n_workers a run may be configured with (0: None).
ParallelismOptions == BOOLEAN \X {0, 2, MainWorkers}

\* main() is run once more on the same two files, with the same
\* configuration or with another use_parallel and n_workers: a new
\* comparator is constructed; what the first run reported is remembered.
Rerun ==
    /\ pc = "done"
    /\ previous = <<>>
    /\ previous' = [cfg |-> cfg, report |-> report, lookups |-> lookups,
                    txt |-> txt]
    /\ \E option \in ParallelismOptions :
          cfg' = [cfg EXCEPT !.use_parallel = option[1],
                             !.n_workers = option[2]]
    /\ pc' = "validating"
    /\ df1' = <<>> /\ df2' = <<>>
    /\ df1_original' = <<>> /\ df2_original' = <<>>
    /\ hash_index_2' = <<>>
    /\ result' = <<>>
    /\ report' = <<>>
    /\ lookups' = <<>>
    /\ md' = <<>>
    /\ encoding1' = "unset" /\ encoding2' = "unset"
    /\ reads' = <<>>
    /\ load_error' = "none"
    /\ txt' = <<>>
    /\ builds' = <<>>
    /\ console' = <<>>
    /\ UNCHANGED <<file1, file2, clock>>

NextTwice ==
    \/ NextMain
    \/ Tick
    \/ Rerun

\* The files run twice: of the same and of different lengths and column
\* counts, with shared rows and without.
TwiceTables ==
    {<<RowX>>, <<RowP1, RowX>>, <<RowX, RowP1, RowX>>, <<RowQ>>}

InitTwice ==
    /\ file1 \in [rows : TwiceTables, decodes : {AllEncodings}, status : {"ok"}]
    /\ file2 \in [rows : TwiceTables, decodes : {AllEncodings}, status : {"ok"}]
    /\ cfg \in Configs
    /\ Started

SpecTwice == InitTwice /\ [][NextTwice]_vars

\* ----------------------------------------------------------- normalisation

\* Characters a field may hold: a letter, the comma, the three whitespace
\* characters and a character regex_pattern matches.
FieldChars == {"a", ",", " ", "nbsp", "tab", "#"}

\* The fields of at most n characters.
FieldsUpTo(n) == UNION {[1..k -> FieldChars] : k \in 0..n}

\* delimiter of main()'s CONFIG.
MainDelimiter == <<"!", "@", "#">>

\* The configurations with the punctuation normalisation on and off.
NormalizeConfigs ==
    {[c EXCEPT !.substituir_caractere_invalido = flag,
               !.delimiter = MainDelimiter] :
        c \in {d \in Configs : d.max_rows_for_moved_check = 1},
        flag \in BOOLEAN}

\* File 1 holds a row of any field and x, followed by the row x,y; file 2
\* holds a row whose first field is normalised to a.a, or one with a tab, or
\* a single column.
InitNormalize ==
    /\ file1 \in [rows : {<<<<f, <<"x">>>>, RowX>> : f \in FieldsUpTo(FieldLen)},
                   decodes : {AllEncodings}, status : {"ok"}]
    /\ file2 \in [rows : {<<<<<<"a", ",", " ", "a">>, <<"x">>>>>>,
                           <<<<<<"a", "tab", "a">>, <<"x">>>>>>,
                           <<RowQ>>},
                   decodes : {AllEncodings}, status : {"ok"}]
    /\ cfg \in NormalizeConfigs
    /\ Started

SpecNormalize == InitNormalize /\ [][NextMain]_vars

\* ------------------------------------------------- duplicate accounting

\* The k-th filler row of a long table: f,1  f,2  ...
DigitChars == <<"1", "2", "3", "4", "5", "6", "7", "8", "9">>

Filler(k) == <<<<"f">>, <<DigitChars[k]>>>>

\* The filler rows in the order a long table uses them: all distinct
\* ("distinct"), the first one used twice ("repeat"), or led by the two rows
\* RowP1, RowP2 that differ and are joined to the same string ("collide").
FillerAt(mode, k) ==
    IF mode = "repeat" THEN Filler(Max(k - 1, 1))
    ELSE IF mode = "collide" /\ k = 1 THEN RowP1
    ELSE IF mode = "collide" /\ k = 2 THEN RowP2
    ELSE Filler(k)

\* The table of n rows holding RowX at the positions of S and fillers elsewhere.
DupTable(S, n, mode) ==
    [i \in 1..n |->
        IF i \in S THEN RowX
        ELSE FillerAt(mode, Cardinality({j \in 1..i : j \notin S}))]

DupTables ==
    {DupTable(S, n, mode) :
        S \in {T \in SUBSET (1..DupRows) : Cardinality(T) \in {4, 5}},
        n \in {DupRows - 1, DupRows},
        mode \in {"distinct", "repeat", "collide"}}

\* A long second file against a short first one, of the same or of another
\* column count, with the search on or off.
InitDup ==
    /\ file1 \in [rows : {<<RowX>>, <<RowQ>>}, decodes : {AllEncodings},
                   status : {"ok"}]
    /\ file2 \in [rows : DupTables, decodes : {AllEncodings}, status : {"ok"}]
    /\ cfg \in {c \in Configs : c.max_rows_for_moved_check = 1}
    /\ Constructed
    /\ FirstRun

SpecDup == InitDup /\ [][Next]_vars

\* ------------------------------------------------- reading the report

\* compare_rows_detailed has returned its classification into the report.
Reconciled ==
    /\ pc \in {"compared", "reported", "rendered", "done"}
    /\ "erro" \notin DOMAIN report.comparacao_linhas

Outcome == report.comparacao_linhas

\* The table-1 positions of the entries of the three table-1 lists.
MovedLinhas ==
    [k \in 1..Len(Outcome.linhas_movidas) |->
        Outcome.linhas_movidas[k].linha_original]

NotFoundLinhas ==
    [k \in 1..Len(Outcome.linhas_nao_movidas_nao_encontradas) |->
        Outcome.linhas_nao_movidas_nao_encontradas[k].linha]

Exclusive1Linhas ==
    [k \in 1..Len(Outcome.linhas_apenas_arquivo1) |->
        Outcome.linhas_apenas_arquivo1[k].linha]

Exclusive2Linhas ==
    [k \in 1..Len(Outcome.linhas_apenas_arquivo2) |->
        Outcome.linhas_apenas_arquivo2[k].linha]

\* How many entries of a list of positions are position i.
Occurrences(linhas, i) == Cardinality({k \in 1..Len(linhas) : linhas[k] = i})

\* The positions of table 1, and those of the intersection (the candidates).
Positions1 == 0..(Len(df1) - 1)

Candidates == 0..(MinRows - 1)

Searched == Range(lookups)

\* The outcome of a table-1 position i, read from the report and the lookups:
\* a row of linhas_nao_movidas_nao_encontradas is NotFound when it was looked
\* up and NotSearched when it was not.
IsMatchedMoved(i) == i \in Range(MovedLinhas)

IsNotFound(i) == i \in Range(NotFoundLinhas) /\ i \in Searched

IsNotSearched(i) == i \in Range(NotFoundLinhas) /\ i \notin Searched

IsExclusive1(i) == i \in Range(Exclusive1Linhas)

Budget == cfg.max_rows_for_moved_check

\* ----------------------------------------------------------------- claims

\* C1: after compare_rows_detailed on tables of equal column count, whatever
\* the table lengths, the budget and check_moved_rows, every table-1 position
\* 0..len(table1)-1 is listed exactly once in linhas_movidas,
\* linhas_nao_movidas_nao_encontradas and linhas_apenas_arquivo1 taken
\* together, and the three lists hold len(table1) entries in all.
C1_Partition ==
    Reconciled =>
        /\ \A i \in Positions1 :
              Occurrences(MovedLinhas, i) + Occurrences(NotFoundLinhas, i)
              + Occurrences(Exclusive1Linhas, i) = 1
        /\ Len(MovedLinhas) + Len(NotFoundLinhas) + Len(Exclusive1Linhas)
           = Len(df1)

\* A run that fills all three lists, part of the candidates left out by the budget.
C1_Witness ==
    /\ Reconciled
    /\ Len(MovedLinhas) > 0
    /\ Len(Exclusive1Linhas) > 0
    /\ \E i \in Candidates : IsNotSearched(i)

C3_NotSearchedKeptApart ==
    (Reconciled /\ Budget >= 0) =>
        \A i \in Range(NotFoundLinhas) : i \in Searched

\* C4: every searched candidate i is MatchedMoved iff its digest is a key of
\* table 2's index, its position list then being exactly the table-2
\* positions whose row has that digest, each once and in ascending order;
\* otherwise it is NotFound.
Table2PositionsOf(digest) ==
    {j \in 0..(Len(df2) - 1) : create_row_hash(df2[j + 1]) = digest}

MovedPositions(i) ==
    LET k == CHOOSE k \in 1..Len(MovedLinhas) : MovedLinhas[k] = i
    IN  Outcome.linhas_movidas[k].posicoes_encontradas

C4_Classification ==
    Reconciled =>
        \A i \in Searched :
            LET digest == create_row_hash(df1[i + 1])
            IN  /\ IsMatchedMoved(i) <=> digest \in DOMAIN hash_index_2
                /\ IsMatchedMoved(i) =>
                      /\ Range(MovedPositions(i)) = Table2PositionsOf(digest)
                      /\ Len(MovedPositions(i))
                         = Cardinality(Table2PositionsOf(digest))
                /\ ~IsMatchedMoved(i) => IsNotFound(i)

\* A search that finds one row at two positions of table 2 and another nowhere.
C4_Witness ==
    /\ Reconciled
    /\ \E i \in Searched : IsMatchedMoved(i) /\ Len(MovedPositions(i)) = 2
    /\ \E i \in Searched : IsNotFound(i)

\* C5 (as claimed): in every configuration, check_moved_rows off included,
\* every table-1 row of the intersection range 0..m-1 ends in exactly one of
\* MatchedMoved, NotFound, NotSearched and is never Exclusive.
C5_CandidatesNeverExclusive ==
    Reconciled =>
        \A i \in Candidates :
            /\ Occurrences(MovedLinhas, i) + Occurrences(NotFoundLinhas, i) = 1
            /\ ~IsExclusive1(i)

\* C5 (amended): with check_moved_rows on, every table-1 row of the
\* intersection range 0..m-1 ends in exactly one of MatchedMoved, NotFound,
\* NotSearched and is never Exclusive.
C5_CandidatesNeverExclusiveWhenSearching ==
    (Reconciled /\ cfg.check_moved_rows) =>
        \A i \in Candidates :
            /\ Occurrences(MovedLinhas, i) + Occurrences(NotFoundLinhas, i) = 1
            /\ ~IsExclusive1(i)

\* A search that ends one candidate in each of the three outcomes.
C5_Witness ==
    /\ Reconciled
    /\ cfg.check_moved_rows
    /\ \E i \in Candidates : IsMatchedMoved(i)
    /\ \E i \in Candidates : IsNotFound(i)
    /\ \E i \in Candidates : IsNotSearched(i)

\* C6: with check_moved_rows on, linhas_apenas_arquivo1 lists exactly the
\* positions m..len(table1)-1 and linhas_apenas_arquivo2 exactly
\* m..len(table2)-1, each in ascending order; so at most one of the two lists
\* is non-empty, and no exclusive row is looked up in the index.
C6_ExclusiveRanges ==
    (Reconciled /\ cfg.check_moved_rows) =>
        /\ Exclusive1Linhas = PyRange(MinRows, Len(df1))
        /\ Exclusive2Linhas = PyRange(MinRows, Len(df2))
        /\ Len(Exclusive1Linhas) = 0 \/ Len(Exclusive2Linhas) = 0
        /\ \A i \in Range(Exclusive1Linhas) : i \notin Searched

\* A searched run in which table 1 is the longer table by two rows.
C6_Witness ==
    /\ Reconciled
    /\ cfg.check_moved_rows
    /\ Len(Exclusive1Linhas) = 2
    /\ Len(lookups) > 0

\* C7 (as claimed): no table-2 position is both listed as exclusive to
\* table 2 (linhas_apenas_arquivo2) and contained in the position list of a
\* MatchedMoved entry.
C7_Table2Disjoint ==
    Reconciled =>
        Range(Exclusive2Linhas)
        \cap IndicesEncontradosArq2(Outcome.linhas_movidas) = {}

\* The rows of a table are pairwise different, field by field.
AllRowsUnique(df) ==
    \A i, j \in 1..Len(df) : df[i] = df[j] => i = j

\* Table d2 holds exactly the rows of d1, at the same or at other positions.
SameRows(d1, d2) ==
    /\ Len(d1) = Len(d2)
    /\ Range(d1) = Range(d2)

\* The outcome C8 claims: every table-1 row MatchedMoved, none NotFound or
\* Exclusive, as many MatchedMoved as rows, similarity 100.
AllMatched ==
    /\ \A i \in Positions1 : IsMatchedMoved(i)
    /\ Len(NotFoundLinhas) = 0
    /\ Len(Exclusive1Linhas) = 0
    /\ Len(Exclusive2Linhas) = 0
    /\ Len(MovedLinhas) = Len(df1)
    /\ FracIs(Outcome.percentual_similaridade, 100)

\* C8 (as claimed): when table 2 holds exactly the rows of table 1, in any
\* order, all rows unique, every table-1 row is MatchedMoved, NotFound =
\* Exclusive = 0, the MatchedMoved count is the row count and similarity 100
\* (stated for the budgets B >= 0).
C8_Identity ==
    (Reconciled /\ Budget >= 0 /\ AllRowsUnique(df1) /\ SameRows(df1, df2))
        => AllMatched

\* C8 (amended): the same, provided check_moved_rows is on and the budget is
\* at least the row count.
C8_IdentityWithinBudget ==
    (/\ Reconciled
     /\ AllRowsUnique(df1)
     /\ SameRows(df1, df2)
     /\ cfg.check_moved_rows
     /\ Budget >= Len(df1)) => AllMatched

\* Three unique rows, reordered in table 2, searched in full.
C8_Witness ==
    /\ Reconciled
    /\ AllRowsUnique(df1)
    /\ SameRows(df1, df2)
    /\ cfg.check_moved_rows
    /\ Budget >= Len(df1)
    /\ Len(df1) = 3
    /\ \A i \in 1..3 : df1[i] # df2[i]

\* No row of d1 is joined by create_row_hash to the string a row of d2 is.
NoSharedContent(d1, d2) ==
    \A i \in 1..Len(d1), j \in 1..Len(d2) :
        Join(<<"|">>, d1[i]) # Join(<<"|">>, d2[j])

\* C9 (as claimed): for tables of equal column count sharing no row content
\* (no row of one is joined to the same '|'-separated string as a row of the
\* other), MatchedMoved = 0, similarity = 0, every row of the candidate range
\* is in the not-found list and every excess row of the longer table is
\* Exclusive.
C9_Disjoint ==
    (Reconciled /\ NoSharedContent(df1, df2)) =>
        /\ Len(MovedLinhas) = 0
        /\ FracIs(Outcome.percentual_similaridade, 0)
        /\ \A i \in Candidates : Occurrences(NotFoundLinhas, i) = 1
        /\ Exclusive1Linhas = PyRange(MinRows, Len(df1))
        /\ Exclusive2Linhas = PyRange(MinRows, Len(df2))

\* C9 (amended): with check_moved_rows on, for tables of equal column count
\* of which no row is joined to the same '|'-separated string as a row of
\* the other, MatchedMoved = 0, similarity = 0, every row of the candidate
\* range is listed as not found (NotFound when the budget reached it,
\* NotSearched when not) and every excess row of the longer table is
\* Exclusive.
C9_DisjointWhenSearching ==
    (Reconciled /\ cfg.check_moved_rows /\ NoSharedContent(df1, df2)) =>
        /\ Len(MovedLinhas) = 0
        /\ FracIs(Outcome.percentual_similaridade, 0)
        /\ \A i \in Candidates :
              /\ Occurrences(NotFoundLinhas, i) = 1
              /\ i \in Searched => IsNotFound(i)
              /\ i \notin Searched => IsNotSearched(i)
        /\ Exclusive1Linhas = PyRange(MinRows, Len(df1))
        /\ Exclusive2Linhas = PyRange(MinRows, Len(df2))

\* Disjoint tables of different lengths, every candidate searched.
C9_Witness ==
    /\ Reconciled
    /\ cfg.check_moved_rows
    /\ NoSharedContent(df1, df2)
    /\ MinRows = 2
    /\ Len(lookups) = 2
    /\ Len(Exclusive2Linhas) = 1

\* The string create_row_hash digests: the content of a row.
Content(row) == Join(<<"|">>, row)

\* The 0-based positions of the rows of df with the content of its row i.
PositionsLike(df, i) ==
    {j \in 0..(Len(df) - 1) : Content(df[j + 1]) = Content(df[i + 1])}

\* Row i of df is one of the 5 rows of a content x, in a table of 10 rows no
\* other content of which is duplicated.
FiveOfTen(df, i) ==
    /\ Len(df) = 10
    /\ i \in 0..9
    /\ Cardinality(PositionsLike(df, i)) = 5
    /\ \A j \in 0..9 :
          j \notin PositionsLike(df, i) => PositionsLike(df, j) = {j}

\* The index of table 2 holds one entry for the digest of its row i, whose
\* position list is the 5 positions of that content.
OneEntryOfFive(i) ==
    LET digest == create_row_hash(df2[i + 1])
    IN  /\ digest \in DOMAIN hash_index_2
        /\ Len(hash_index_2[digest]) = 5
        /\ Range(hash_index_2[digest]) = PositionsLike(df2, i)

\* C10 (as claimed): a table of 10 rows in which one content occurs 5 times
\* and no other content is duplicated has one index entry for that content's
\* digest, with a 5-element position list, and its reported duplicate
\* percentage is 50.0%.
C10_DuplicateAccounting ==
    \A i \in 0..9 :
        FiveOfTen(df2, i) =>
            /\ Reconciled => OneEntryOfFive(i)
            /\ pc = "rendered" => md.rows_analysis.perc_dup2 = 500

\* C10 (amended): such a table has one index entry for that content's
\* digest, with a 5-element position list; its distinct count is 6 and its
\* reported duplicate percentage is (1 - 6/10) * 100 = 40.0%.
C10_DuplicateAccountingForty ==
    \A i \in 0..9 :
        FiveOfTen(df2, i) =>
            /\ Reconciled => OneEntryOfFive(i)
            /\ pc = "rendered" =>
                  /\ md.rows_analysis.distintas2 = 6
                  /\ md.rows_analysis.perc_dup2 = 400

\* Such a table, indexed by the reconciler and rendered.
C10_Witness ==
    /\ pc = "rendered"
    /\ Reconciled
    /\ \E i \in 0..9 : FiveOfTen(df2, i)

\* The float p equals n / d.
FracEq(p, n, d) == p.num * d = n * p.den

\* C11: whenever the detailed comparison ran, percentual_similaridade is
\* (number of table-1 rows classified MatchedMoved) / max(len(table1),
\* len(table2)) * 100, a row counting once however many table-2 positions it
\* matched; and _calculate_final_statistics yields 100 on two empty tables.
C11_Similarity ==
    /\ Reconciled =>
          /\ Len(Outcome.linhas_movidas)
             = Cardinality({i \in Positions1 : IsMatchedMoved(i)})
          /\ Max(Len(df1), Len(df2)) > 0 =>
                FracEq(Outcome.percentual_similaridade,
                       Cardinality({i \in Positions1 : IsMatchedMoved(i)}) * 100,
                       Max(Len(df1), Len(df2)))
    /\ FracIs(CalculateFinalStatistics(EmptyResult, <<>>, <<>>)
                .percentual_similaridade, 100)

\* One row of three matched, at two positions of table 2: similarity 1/3.
C11_Witness ==
    /\ Reconciled
    /\ Len(MovedLinhas) = 1
    /\ Len(MovedPositions(MovedLinhas[1])) = 2
    /\ Max(Len(df1), Len(df2)) = 3
    /\ FracEq(Outcome.percentual_similaridade, 100, 3)

\* generate_report has returned the report; the Markdown report is rendered.
Reported == pc \in {"reported", "rendered", "done"}

Rendered == pc \in {"rendered", "done"}

\* The number of different contents (digested strings) among the rows of df.
DistinctContents(df) == Cardinality({Content(df[i]) : i \in 1..Len(df)})

\* (1 - distinct/total) * 100 to one decimal, in tenths.
DupTenths(distinct, total) == Fmt1(Frac((total - distinct) * 100, total))

\* C12: in every report, the detailed comparison run or skipped, the distinct
\* count of each table is present and is the number of keys of the table's
\* hash index (the number of different row contents); the duplication table
\* shows these counts and (1 - distinct/total) * 100; and the percentage of a
\* table without rows is 0.
C12_DistinctCounts ==
    /\ Reported =>
          /\ {"distintas_arquivo1", "distintas_arquivo2"}
                \subseteq DOMAIN report.linhas
          /\ report.linhas.distintas_arquivo1
                = Cardinality(DOMAIN build_hash_index(df1))
          /\ report.linhas.distintas_arquivo2
                = Cardinality(DOMAIN build_hash_index(df2))
          /\ report.linhas.distintas_arquivo1 = DistinctContents(df1)
          /\ report.linhas.distintas_arquivo2 = DistinctContents(df2)
          /\ Reconciled =>
                report.linhas.distintas_arquivo2
                    = Cardinality(DOMAIN hash_index_2)
    /\ Rendered =>
          /\ md.rows_analysis.distintas1 = DistinctContents(df1)
          /\ md.rows_analysis.distintas2 = DistinctContents(df2)
          /\ Len(df1) > 0 =>
                md.rows_analysis.perc_dup1
                    = DupTenths(DistinctContents(df1), Len(df1))
          /\ Len(df2) > 0 =>
                md.rows_analysis.perc_dup2
                    = DupTenths(DistinctContents(df2), Len(df2))
    /\ FracIs(PercDup(0, 0), 0)

\* A rendered report of tables of different column counts (the detailed
\* comparison skipped), table 1 holding 3 rows of 2 contents: 33.3%.
C12_Witness ==
    /\ Rendered
    /\ "erro" \in DOMAIN report.comparacao_linhas
    /\ Len(df1) = 3
    /\ report.linhas.distintas_arquivo1 = 2
    /\ md.rows_analysis.perc_dup1 = 333

\* load_files has returned True.
Loaded ==
    pc \in {"loaded", "structure", "partitioned", "compared", "reported",
            "rendered", "done"}

\* The columns of a row that are not in cols, in their order: the i-th of
\* them is the column with i-1 kept columns before it.
KeptColumns(row, cols) == {c \in 1..Len(row) : (c - 1) \notin cols}

Remaining(row, cols) ==
    [i \in 1..Cardinality(KeptColumns(row, cols)) |->
        row[CHOOSE c \in KeptColumns(row, cols) :
                Cardinality({d \in KeptColumns(row, cols) : d < c}) = i - 1]]

\* Table df is the rows of the source, in number and in order, each without
\* its excluded columns and each field stripped.
LoadedWithout(df, rows, cols) ==
    /\ Len(df) = Len(rows)
    /\ \A i \in 1..Len(rows) :
          df[i] = [c \in 1..Len(Remaining(rows[i], cols)) |->
                        Strip(Remaining(rows[i], cols)[c])]

\* C13 (as claimed): for every configured set of k excluded indices (stated
\* for indices >= 0), after the load each table has exactly k columns less
\* than its file, the rows keep their number and the remaining columns their
\* order.
C13_ExclusionByK ==
    (Loaded /\ cfg.exclude_columns \subseteq Nat) =>
        /\ NCols(df1) = NCols(file1.rows) - Cardinality(cfg.exclude_columns)
        /\ NCols(df2) = NCols(file2.rows) - Cardinality(cfg.exclude_columns)
        /\ LoadedWithout(df1, file1.rows, cfg.exclude_columns)
        /\ LoadedWithout(df2, file2.rows, cfg.exclude_columns)

\* C13 (amended): after the load each table has lost exactly those configured
\* indices that are columns of it (all k of them when every index is below
\* the column count of both files), the same set applied to both; the rows
\* keep their number and the remaining columns their order.
C13_ExclusionOfExistingColumns ==
    Loaded =>
        /\ NCols(df1) = NCols(file1.rows)
              - Cardinality(cfg.exclude_columns
                            \cap (0..(NCols(file1.rows) - 1)))
        /\ NCols(df2) = NCols(file2.rows)
              - Cardinality(cfg.exclude_columns
                            \cap (0..(NCols(file2.rows) - 1)))
        /\ (cfg.exclude_columns
                \subseteq 0..(Min(NCols(file1.rows), NCols(file2.rows)) - 1)) =>
              /\ NCols(df1)
                    = NCols(file1.rows) - Cardinality(cfg.exclude_columns)
              /\ NCols(df2)
                    = NCols(file2.rows) - Cardinality(cfg.exclude_columns)
        /\ LoadedWithout(df1, file1.rows, cfg.exclude_columns)
        /\ LoadedWithout(df2, file2.rows, cfg.exclude_columns)
        /\ df1_original = df1 /\ df2_original = df2

\* Columns 0 and 2 excluded from two files of three columns and two rows.
C13_Witness ==
    /\ Loaded
    /\ cfg.exclude_columns = {0, 2}
    /\ NCols(file1.rows) = 3 /\ NCols(file2.rows) = 3
    /\ Len(df1) = 2 /\ Len(df2) = 2
    /\ NCols(df1) = 1 /\ NCols(df2) = 1

\* generate_report has returned in the second of two runs on the same files.
SecondRunReported == previous # <<>> /\ Reported

\* A report without the two fields of its metadata read from the clock.
WithoutTimes(rep) ==
    [rep EXCEPT !.metadados =
        [f \in DOMAIN rep.metadados \ {"data_comparacao", "tempo_execucao"} |->
            rep.metadados[f]]]

\* C14 (as claimed): two runs on the same files with the same configuration
\* yield the same report, every field of it, the metadata included.
C14_SameReport ==
    (SecondRunReported /\ cfg = previous.cfg) => report = previous.report

\* C14 (amended): two runs on the same files with the same configuration
\* yield reports equal in every field but metadados.data_comparacao and
\* metadados.tempo_execucao, which are read from the clock.
C14_SameReportButTimes ==
    (SecondRunReported /\ cfg = previous.cfg) =>
        /\ WithoutTimes(report) = WithoutTimes(previous.report)
        /\ DOMAIN report.metadados = DOMAIN previous.report.metadados

\* A second run with the first one's configuration, started later, whose
\* report holds a row found and a row not found.
C14_Witness ==
    /\ SecondRunReported
    /\ cfg = previous.cfg
    /\ Reconciled
    /\ Len(MovedLinhas) > 0
    /\ Len(NotFoundLinhas) > 0
    /\ report.metadados.data_comparacao
         # previous.report.metadados.data_comparacao

\* The two loaded tables differ in their number of columns.
ColumnsDiffer == NCols(df1) # NCols(df2)

\* generate_report is past its structural sections.
Structured ==
    pc \in {"structure", "partitioned", "compared", "reported", "rendered",
            "done"}

\* generate_report is past the branch on the column comparison.
Compared == pc \in {"compared", "reported", "rendered", "done"}

\* C15: when the loaded tables (after exclusion) differ in column count, no
\* row is looked up or classified: the reconciler is never entered, the
\* row-comparison section is the error marker with its six lists empty; the
\* column counts, the positions of one table only, the row counts and the
\* distinct counts are reported; the Markdown report shows the "not
\* performed" notice, no companion file is written, and every step of the
\* run up to its successful return can be taken.
C15_ColumnMismatch ==
    (Loaded /\ ColumnsDiffer) =>
        /\ pc # "partitioned"
        /\ lookups = <<>> /\ result = <<>> /\ hash_index_2 = <<>>
        /\ Structured =>
              /\ report.colunas.arquivo1.quantidade = NCols(df1)
              /\ report.colunas.arquivo2.quantidade = NCols(df2)
              /\ ~report.colunas.mesma_quantidade
              /\ report.colunas.colunas_diferentes
              /\ report.colunas.posicoes_apenas_arquivo1
                    = (0..(NCols(df1) - 1)) \ (0..(NCols(df2) - 1))
              /\ report.colunas.posicoes_apenas_arquivo2
                    = (0..(NCols(df2) - 1)) \ (0..(NCols(df1) - 1))
              /\ report.linhas.arquivo1 = Len(df1)
              /\ report.linhas.arquivo2 = Len(df2)
        /\ Compared =>
              /\ DOMAIN report.comparacao_linhas
                    = DOMAIN EmptyResult \cup {"erro"}
              /\ \A list \in DOMAIN EmptyResult :
                    report.comparacao_linhas[list] = <<>>
        /\ Reported =>
              /\ report.linhas.distintas_arquivo1 = DistinctContents(df1)
              /\ report.linhas.distintas_arquivo2 = DistinctContents(df2)
        /\ Rendered => md.detailed = <<>>
        /\ pc = "done" => txt = <<>>
        /\ pc # "done" => ENABLED NextMain

\* A completed run on files of three and of two columns, column 0 excluded
\* from both.
C15_Witness ==
    /\ pc = "done"
    /\ cfg.exclude_columns = {0}
    /\ NCols(df1) = 2
    /\ NCols(df2) = 1
    /\ Len(df1) = 2
    /\ "erro" \in DOMAIN report.comparacao_linhas

\* The file is missing, cannot be read, or is decoded by none of the
\* candidate encodings.
CannotBeLoaded(file) ==
    \/ file.status # "ok"
    \/ Len(file.rows) = 0
    \/ \A k \in 1..Len(encodings_to_try) : encodings_to_try[k] \notin file.decodes

\* The encodings pd.read_csv was called with for file n, in order.
Attempts(n) ==
    LET calls == SelectSeq(reads, LAMBDA r : r.file_num = n)
    IN  [k \in 1..Len(calls) |-> calls[k].encoding]

\* C16: when one of the two files is missing or cannot be loaded, main()
\* never reaches generate_report: it returns False from the validation or
\* from load_files, no report, Markdown file or companion file exists, and
\* nothing is compared; when it is file 1 that cannot be loaded, file 2 is
\* not even read.
C16_AbortOnLoadFailure ==
    (CannotBeLoaded(file1) \/ CannotBeLoaded(file2)) =>
        /\ pc \in {"validating", "constructed", "invalid", "load_failed"}
        /\ pc \in {"validating", "constructed"} => ENABLED NextMain
        /\ pc = "load_failed" => load_error # "none"
        /\ report = <<>> /\ md = <<>> /\ txt = <<>>
        /\ result = <<>> /\ lookups = <<>> /\ hash_index_2 = <<>>
        /\ CannotBeLoaded(file1) =>
              /\ Len(Attempts(2)) = 0
              /\ df1 = <<>> /\ df2 = <<>>
              /\ encoding1 = "unset" /\ encoding2 = "unset"

\* load_files has failed on a file 1 that no encoding decodes, file 2 being
\* a file that loads.
C16_Witness ==
    /\ pc = "load_failed"
    /\ file1.status = "ok" /\ Len(file1.rows) > 0 /\ file1.decodes = {}
    /\ ~CannotBeLoaded(file2)
    /\ load_error = "unsupported_encoding"
    /\ Len(Attempts(1)) = 3

\* Sequence s is a prefix of sequence t.
IsPrefix(s, t) == Len(s) <= Len(t) /\ s = SubSeq(t, 1, Len(s))

\* The encoding is the last one attempted, it decodes the file, and no
\* encoding attempted before it does.
FirstDecoding(file, attempts, encoding) ==
    /\ Len(attempts) > 0
    /\ encoding = attempts[Len(attempts)]
    /\ encoding \in file.decodes
    /\ \A k \in 1..(Len(attempts) - 1) : attempts[k] \notin file.decodes

\* load_files has been called and has returned.
LoadAttempted == pc \notin {"validating", "constructed", "invalid"}

\* The file whose load raised, when load_files failed.
FailedFile == IF encoding1 = "unset" THEN 1 ELSE 2

\* C17: the encodings pd.read_csv is called with for a file are an initial
\* part of utf-8, latin1, cp1252, in that order and so each at most once,
\* file 1 before file 2; a load that returns a table returns it with the
\* last encoding attempted, which is the first of the list that decodes the
\* file; and the load fails as "no encoding could load the file" only when
\* all three were attempted and none decodes.
C17_EncodingFallback ==
    LoadAttempted =>
        /\ IsPrefix(Attempts(1), encodings_to_try)
        /\ IsPrefix(Attempts(2), encodings_to_try)
        /\ reads = ReadCalls(1, Attempts(1)) \o ReadCalls(2, Attempts(2))
        /\ encoding1 # "unset" =>
              /\ FirstDecoding(file1, Attempts(1), encoding1)
              /\ LoadedWithout(df1, file1.rows, {})
        /\ encoding2 # "unset" =>
              /\ FirstDecoding(file2, Attempts(2), encoding2)
              /\ LoadedWithout(df2, file2.rows, {})
        /\ load_error = "unsupported_encoding" =>
              /\ pc = "load_failed"
              /\ Attempts(FailedFile) = encodings_to_try
              /\ \A k \in 1..Len(encodings_to_try) :
                    encodings_to_try[k]
                        \notin (IF FailedFile = 1 THEN file1 ELSE file2).decodes
        /\ pc = "loaded" => encoding1 # "unset" /\ encoding2 # "unset"

\* File 1 loaded with latin1 after utf-8 failed, cp1252 never tried; file 2
\* failed after all three encodings.
C17_Witness ==
    /\ pc = "load_failed"
    /\ encoding1 = "latin1"
    /\ "cp1252" \in file1.decodes
    /\ Attempts(1) = <<"utf-8", "latin1">>
    /\ load_error = "unsupported_encoding"
    /\ Attempts(2) = encodings_to_try

\* The table-1 positions of the lines of the companion file, in file order.
TxtLinhas == [k \in 1..Len(txt) |-> txt[k].linha]

\* C18 (as claimed): the companion file holds one line for every table-1 row
\* classified NotFound and for every table-1 row classified Exclusive, and
\* no other line (stated for the runs of the search whose budget leaves no
\* candidate out).
C18_CompanionContent ==
    (pc = "done" /\ Reconciled /\ cfg.check_moved_rows /\ Budget >= MinRows) =>
        \A i \in Positions1 :
            Occurrences(TxtLinhas, i)
                = IF IsNotFound(i) \/ IsExclusive1(i) THEN 1 ELSE 0

\* C19 (as claimed): the lines of the companion file are in table-1 order:
\* their table-1 positions are strictly increasing (stated for the budgets
\* B >= 0).
C19_CompanionOrder ==
    (pc = "done" /\ Budget >= 0) =>
        \A k \in 1..(Len(txt) - 1) : TxtLinhas[k] < TxtLinhas[k + 1]

\* The configuration of this run differs from that of the run before in
\* use_parallel or n_workers, and in nothing else.
OnlyParallelismDiffers ==
    /\ cfg # previous.cfg
    /\ [cfg EXCEPT !.use_parallel = previous.cfg.use_parallel,
                   !.n_workers = previous.cfg.n_workers] = previous.cfg

\* C20: two runs on the same files whose configurations differ only in
\* use_parallel and n_workers report the same row comparison (the same
\* MatchedMoved entries, not-found list, Exclusive lists and similarity, or
\* the same error marker), look up the same rows (so the same NotFound and
\* NotSearched rows), and report the same row and distinct counts and the
\* same column comparison.
C20_ParallelismIrrelevant ==
    (SecondRunReported /\ OnlyParallelismDiffers) =>
        /\ report.comparacao_linhas = previous.report.comparacao_linhas
        /\ lookups = previous.lookups
        /\ report.linhas = previous.report.linhas
        /\ report.colunas = previous.report.colunas
        /\ pc = "done" => txt = previous.txt

\* A sequential second run after a parallel first one, the budget leaving
\* out one of two candidates.
C20_Witness ==
    /\ SecondRunReported
    /\ OnlyParallelismDiffers
    /\ Reconciled
    /\ ~cfg.use_parallel /\ previous.cfg.use_parallel
    /\ report.metadados.configuracao.workers = 1
    /\ previous.report.metadados.configuracao.workers = MainWorkers
    /\ Len(lookups) = 1
    /\ \E i \in Candidates : IsNotSearched(i)

\* C21 (as claimed): whatever integer the budget is, 0 and the values below
\* 0 included, the search looks up no more candidates than the budget: at
\* most B of them for B >= 0, and none for B < 0.
C21_LookupsWithinBudget ==
    (Reconciled /\ cfg.check_moved_rows) => Len(lookups) <= Max(Budget, 0)

\* The table-2 positions listed by the k-th entry of linhas_movidas.
PositionsFound(k) == Outcome.linhas_movidas[k].posicoes_encontradas

\* C22 (as claimed): the position list of every MatchedMoved entry holds at
\* least one table-2 position other than the row's own table-1 position.
C22_MovedElsewhere ==
    Reconciled =>
        \A k \in 1..Len(Outcome.linhas_movidas) :
            \E n \in 1..Len(PositionsFound(k)) :
                PositionsFound(k)[n] # MovedLinhas[k]

\* C22 (amended): the position list of every MatchedMoved entry is not empty
\* and holds only positions of table 2 whose row has the digest of the
\* table-1 row; the row's own position may be one of them, or the only one.
C22_MovedSomewhere ==
    Reconciled =>
        \A k \in 1..Len(Outcome.linhas_movidas) :
            /\ Len(PositionsFound(k)) > 0
            /\ \A n \in 1..Len(PositionsFound(k)) :
                  /\ PositionsFound(k)[n] \in 0..(Len(df2) - 1)
                  /\ create_row_hash(df2[PositionsFound(k)[n] + 1])
                     = create_row_hash(df1[MovedLinhas[k] + 1])

\* One row matched at its own position only, another at a different position
\* only.
C22_Witness ==
    /\ Reconciled
    /\ \E k \in 1..Len(Outcome.linhas_movidas) :
          PositionsFound(k) = <<MovedLinhas[k]>>
    /\ \E k \in 1..Len(Outcome.linhas_movidas) :
          MovedLinhas[k] \notin Range(PositionsFound(k))

\* A list of integers is strictly increasing.
StrictlyIncreasing(s) == \A k \in 1..(Len(s) - 1) : s[k] < s[k + 1]

\* What C23 says of an index over a table df: its lists are non-empty,
\* strictly increasing, pairwise disjoint and cover 0..len(df)-1; two
\* positions share a list iff their rows have the same digest, each list
\* being filed under that digest; there are as many keys as distinct row
\* contents, and a list is longer than 1 exactly when its content occurs
\* more than once in the table.
IsIndexOf(index, df) ==
    /\ \A h \in DOMAIN index :
          /\ Len(index[h]) > 0
          /\ StrictlyIncreasing(index[h])
          /\ \A k \in 1..Len(index[h]) :
                create_row_hash(df[index[h][k] + 1]) = h
    /\ \A g, h \in DOMAIN index :
          g # h => Range(index[g]) \cap Range(index[h]) = {}
    /\ UNION {Range(index[h]) : h \in DOMAIN index} = 0..(Len(df) - 1)
    /\ \A i, j \in 0..(Len(df) - 1) :
          (\E h \in DOMAIN index : {i, j} \subseteq Range(index[h]))
          <=> create_row_hash(df[i + 1]) = create_row_hash(df[j + 1])
    /\ Cardinality(DOMAIN index) = DistinctContents(df)
    /\ \A h \in DOMAIN index :
          Len(index[h]) > 1
          <=> \E i, j \in 1..Len(df) :
                 i # j /\ create_row_hash(df[i]) = h /\ create_row_hash(df[j]) = h

\* compare_rows_detailed has built the index of table 2.
Indexed ==
    /\ pc \in {"partitioned", "compared", "reported", "rendered", "done"}
    /\ NCols(df1) = NCols(df2)

\* C23: the index compare_rows_detailed builds over table 2, the index
\* generate_report builds over table 1 for its distinct count, and the index
\* of the table of no rows are each the index C23 describes: position lists
\* non-empty, strictly increasing, pairwise disjoint, covering 0..n-1, one
\* list per digest, as many keys as distinct rows, a list longer than 1
\* exactly for duplicated content.
C23_HashIndex ==
    /\ Indexed => IsIndexOf(hash_index_2, df2)
    /\ Reported =>
          /\ IsIndexOf(build_hash_index(df1), df1)
          /\ report.linhas.distintas_arquivo1
             = Cardinality(DOMAIN build_hash_index(df1))
    /\ IsIndexOf(build_hash_index(<<>>), <<>>)
    /\ build_hash_index(<<>>) = <<>>

\* An index over three rows with two keys, one list of two positions that
\* are not adjacent.
C23_Witness ==
    /\ Indexed
    /\ Len(df2) = 3
    /\ Cardinality(DOMAIN hash_index_2) = 2
    /\ \E h \in DOMAIN hash_index_2 : hash_index_2[h] = <<0, 2>>

\* The fields of a loaded table.
FieldsOf(df) == {df[i][c] : i \in 1..Len(df), c \in 1..NCols(df)}

\* The allowed set as the claim writes it, [a-zA-Z0-9 .,;:_()/-], and the
\* part of it that can remain once the comma and the space are gone.
ClaimedChars ==
    Letters \cup Digits \cup {" ", ".", ",", ";", ":", "_", "(", ")", "/", "-"}

RemainingChars == ClaimedChars \ {",", " "}

\* The shape of table df is that of the rows it was loaded from.
SameShape(df, rows) ==
    /\ Len(df) = Len(rows)
    /\ \A i \in 1..Len(df) : Len(df[i]) = Len(rows[i])

\* The load has succeeded with the punctuation normalisation on.
LoadedNormalized == Loaded /\ cfg.substituir_caractere_invalido

\* C24 (as claimed): with the punctuation normalisation on, every field of
\* both loaded tables holds only characters of [a-zA-Z0-9 .,;:_()/-], and no
\* comma, space or non-breaking space; every table keeps its row count and
\* the arity of its rows.
C24_OnlyAllowedCharacters ==
    LoadedNormalized =>
        /\ \A df \in {df1, df2, df1_original, df2_original} :
              \A field \in FieldsOf(df) :
                  /\ Range(field) \subseteq ClaimedChars
                  /\ Range(field) \cap {",", " ", "nbsp"} = {}
        /\ SameShape(df1, file1.rows) /\ SameShape(df2, file2.rows)

\* The field the claim's rule makes of a raw field, whitespace other than
\* the space and the non-breaking space kept: trimmed, the two spaces taken
\* out, and every character left that is not in the remaining allowed set
\* or whitespace turned into a period.
ExpectedField(raw) ==
    LET kept == SelectSeq(Strip(raw), LAMBDA ch : ch \notin {" ", "nbsp"})
    IN  [k \in 1..Len(kept) |->
            IF kept[k] \in RemainingChars \cup Whitespace
            THEN kept[k] ELSE "."]

\* Table df holds, field by field, what the rule makes of the raw rows.
NormalizedFrom(df, rows) ==
    /\ SameShape(df, rows)
    /\ \A i \in 1..Len(df) : \A c \in 1..Len(df[i]) :
          df[i][c] = ExpectedField(rows[i][c])

\* C24 (amended): with the punctuation normalisation on, every field of both
\* loaded tables holds only characters of [a-zA-Z0-9.;:_()/-] and whitespace
\* other than the space and the non-breaking space (a tab inside a field
\* stays), never at either end of the field; no comma, space or non-breaking
\* space remains, every other character has been replaced by a period, and
\* every table keeps its row count and the arity of its rows.
C24_AllowedCharactersOrWhitespace ==
    LoadedNormalized =>
        /\ \A df \in {df1, df2, df1_original, df2_original} :
              \A field \in FieldsOf(df) :
                  /\ Range(field) \subseteq RemainingChars \cup {"tab"}
                  /\ Range(field) \cap {",", " ", "nbsp"} = {}
                  /\ Len(field) > 0 =>
                        /\ field[1] \notin Whitespace
                        /\ field[Len(field)] \notin Whitespace
        /\ NormalizedFrom(df1, file1.rows) /\ NormalizedFrom(df2, file2.rows)
        /\ df1_original = df1 /\ df2_original = df2

\* A comma, a space and a character outside the set in one field of file 1,
\* a comma and a space in file 2.
C24_Witness ==
    /\ LoadedNormalized
    /\ file1.rows[1][1] = <<",", " ", "#">>
    /\ df1[1][1] = <<".", ".">>
    /\ file2.rows[1][1] = <<"a", ",", " ", "a">>
    /\ df2[1][1] = <<"a", ".", "a">>

\* The calls of build_hash_index over table 2 so far.
BuildsOfTable2 == SelectSeq(builds, LAMBDA call : call.file_num = 2)

\* C25: in a run with matching column counts, from the return of
\* build_hash_index in compare_rows_detailed to the end of the run, table 2
\* has been indexed exactly once; the index is complete (it files every
\* position of table 2) while no candidate has been looked up yet; and
\* during and after the search it is the index that call returned, its keys
\* and position lists unchanged.
C25_IndexBuiltOnce ==
    Indexed =>
        /\ Len(BuildsOfTable2) = 1
        /\ pc = "partitioned" =>
              /\ lookups = <<>>
              /\ IsIndexOf(hash_index_2, df2)
        /\ hash_index_2 = BuildsOfTable2[1].hash_index
        /\ DOMAIN hash_index_2 = DOMAIN build_hash_index(df2)
        /\ \A h \in DOMAIN hash_index_2 :
              hash_index_2[h] = build_hash_index(df2)[h]

\* The end of a run that looked up two candidates, one found and one not,
\* and indexed table 1 for its distinct count.
C25_Witness ==
    /\ Indexed
    /\ Reported
    /\ Len(lookups) = 2
    /\ \E i \in Searched : IsMatchedMoved(i)
    /\ \E i \in Searched : IsNotFound(i)
    /\ Len(builds) = 2
    /\ builds[2].file_num = 1

\* C26 (as claimed): the string create_row_hash digests determines the
\* fields of the row: two loaded rows of equal arity whose fields joined
\* with '|' give the same string are equal field by field, and so is every
\* table-2 row the index matches to a table-1 row.
C26_JoinDeterminesFields ==
    /\ Loaded =>
          \A i \in 1..Len(df1), j \in 1..Len(df2) :
              (Len(df1[i]) = Len(df2[j])
               /\ Join(<<"|">>, df1[i]) = Join(<<"|">>, df2[j]))
              => df1[i] = df2[j]
    /\ Reconciled =>
          \A k \in 1..Len(Outcome.linhas_movidas) :
              \A n \in 1..Len(PositionsFound(k)) :
                  df2[PositionsFound(k)[n] + 1] = df1[MovedLinhas[k] + 1]

\* The normalisation of this run applied to a table once more: the trimming
\* of _clean_dataframe, then, if configured, the punctuation normalisation.
Renormalized(df) ==
    IF cfg.substituir_caractere_invalido
    THEN ReplaceInvalidCharInDf(CleanDataframe(df))
    ELSE CleanDataframe(df)

\* C27: normalising a loaded (already normalised) table once more, by the
\* trimming followed by the punctuation normalisation if that is on, returns
\* every field as it is, so every row keeps its digest and the table its
\* index.
C27_NormalizationIdempotent ==
    Loaded =>
        \A df \in {df1, df2} :
            /\ Renormalized(df) = df
            /\ \A i \in 1..Len(df) :
                  create_row_hash(Renormalized(df)[i]) = create_row_hash(df[i])
            /\ build_hash_index(Renormalized(df)) = build_hash_index(df)

\* A table whose first field the first normalisation changed at its ends and
\* inside: a space trimmed, a comma and a character outside the set made
\* periods.
C27_Witness ==
    /\ Loaded
    /\ cfg.substituir_caractere_invalido
    /\ file1.rows[1][1] = <<" ", ",", "#">>
    /\ df1[1][1] = <<".", ".">>
    /\ Renormalized(df1)[1][1] = <<".", ".">>

\* The quantity the Markdown report shows in the row of the given kind.
MdQuantity(tipo) ==
    (CHOOSE row \in Range(md.detailed) : row.tipo = tipo).quantidade

\* C28 (as claimed): in every run whose detailed comparison was performed,
\* the number of table-2 rows not found in table 1 that print_summary prints
\* is the number the Markdown report shows for them (stated for the runs of
\* the search whose budget leaves no candidate out).
C28_SummaryAgreesWithMarkdown ==
    (Rendered /\ Reconciled /\ cfg.check_moved_rows /\ Budget >= MinRows) =>
        /\ console.realizada
        /\ console.nao_encontradas_arq2 = MdQuantity("arq2_nao_encontradas")

\* C29: after compare_rows_detailed with check_moved_rows off, nothing was
\* looked up in the index; every position of the intersection 0..m-1 is
\* listed once in linhas_apenas_arquivo1 and once in linhas_apenas_arquivo2,
\* with the row of its table, so that the two lists hold len(table1) and
\* len(table2) entries; linhas_movidas and the not-found list are empty; and
\* the similarity is 0, the tables not being both empty.
C29_SearchDisabled ==
    (Reconciled /\ ~cfg.check_moved_rows) =>
        /\ lookups = <<>>
        /\ \A i \in Candidates :
              /\ Occurrences(Exclusive1Linhas, i) = 1
              /\ Occurrences(Exclusive2Linhas, i) = 1
        /\ \A k \in 1..Len(Exclusive1Linhas) :
              Outcome.linhas_apenas_arquivo1[k].dados_por_posicao
                  = df1_original[Exclusive1Linhas[k] + 1]
        /\ \A k \in 1..Len(Exclusive2Linhas) :
              Outcome.linhas_apenas_arquivo2[k].dados_por_posicao
                  = df2_original[Exclusive2Linhas[k] + 1]
        /\ Len(Exclusive1Linhas) = Len(df1)
        /\ Len(Exclusive2Linhas) = Len(df2)
        /\ Len(Outcome.linhas_movidas) = 0
        /\ Len(Outcome.linhas_nao_movidas_nao_encontradas) = 0
        /\ Max(Len(df1), Len(df2)) > 0 =>
              FracIs(Outcome.percentual_similaridade, 0)

\* Two equal rows at the same positions of both tables, file 1 one row
\* longer, and the search off.
C29_Witness ==
    /\ Reconciled
    /\ ~cfg.check_moved_rows
    /\ Len(df1) = 3
    /\ Len(df2) = 2
    /\ df1[1] = df2[1] /\ df1[2] = df2[2]
    /\ Exclusive1Linhas = <<2, 0, 1>>
    /\ Exclusive2Linhas = <<0, 1>>

\* C30: in the result compare_rows_detailed returns, the entries of
\* linhas_movidas are in strictly increasing order of table-1 position; the
\* position list of each is non-empty, strictly increasing and within
\* 0..len(table2)-1; and the working lists linhas_diferentes_posicao and
\* linhas_identicas_posicao are empty.
C30_ResultShape ==
    Reconciled =>
        /\ StrictlyIncreasing(MovedLinhas)
        /\ \A k \in 1..Len(Outcome.linhas_movidas) :
              /\ Len(PositionsFound(k)) > 0
              /\ StrictlyIncreasing(PositionsFound(k))
              /\ Range(PositionsFound(k)) \subseteq 0..(Len(df2) - 1)
        /\ Outcome.linhas_diferentes_posicao = <<>>
        /\ Outcome.linhas_identicas_posicao = <<>>
        /\ result = Outcome

\* Three rows found, the second of them at two positions of table 2.
C30_Witness ==
    /\ Reconciled
    /\ MovedLinhas = <<0, 1, 2>>
    /\ Len(PositionsFound(2)) = 2
    /\ Len(PositionsFound(1)) = 1

====
